---- MODULE Spec2Model ----
(***************************************************************************)
(* PR Review Bot: the event-driven deduplicating scheduler.                *)
(*                                                                         *)
(* State: the pendingPRs signal (app.tsx), the For/Show instance tree, the *)
(* module-level store of state.tsx (_setOutputs, the reviews output), the  *)
(* snapshot file written by FileMemory, GitHub's view of the bot (login,   *)
(* posted reviews) and one task per mounted ReviewPR (its async onMount).  *)
(* Every await of ReviewPR is a point where other handlers may run.        *)
(***************************************************************************)
EXTENDS Naturals, Integers, Sequences, FiniteSets, TLC

\* ---------------------------------------------------------------- bounds
\* Pipelines spawned over the whole behaviour (all process incarnations).
MaxRuns == 2
\* Largest changedLines value the tier function is applied to.
MaxChangedLines == 302
\* Longest diff (in characters) a prompt is built for.
MaxDiffLen == 12002

\* ------------------------------------------------------------ input sets
\* pr.id values GitHub may deliver.
ItemIds == {1, 2}
\* The events GitHub may deliver (id: pr.id, changedLines: pr.additions +
\* pr.deletions): PR 1 is delivered with two sizes, PR 2 with one.
Events == {[id |-> 1, changedLines |-> 50], [id |-> 1, changedLines |-> 301],
           [id |-> 2, changedLines |-> 51]}
\* Classes of the text returned by the inference call (message.content[0].text):
\* a review JSON object with the verdict approve, text that is not JSON,
\* the JSON literal null, a JSON value without a string verdict ({} or 5),
\* and a JSON object whose verdict is a string outside the three verdicts.
Raws == {"approve", "not_json", "null", "no_verdict", "bad_verdict"}

Undefined == "undefined"
Verdicts == {"approve", "request_changes", "comment"}
\* commentId of a record whose publish returned no positive id (undefined).
NoComment == 0
\* postReviewComment's failure value.
PostFailed == -1
\* data.id of a created review (any positive number).
ReviewId == 7

VARIABLES
  pendingPRs,    \* app.tsx: createSignal<PullRequestEvent[]>([])
  instances,     \* For/Show: instances[i] <=> a ReviewPR is mounted for pendingPRs[i]
  tasks,         \* the async onMount bodies of this process that have not returned
  spawned,       \* number of ReviewPR instances mounted so far
  stateReviews,  \* state.tsx: state.reviews() ?? []
  setOutputsSet, \* state.tsx: _setOutputs !== null
  file,          \* memory.ts: the snapshot file <dir>/<stackName>.json on disk: absent,
                 \* ok (a complete snapshot), writing (truncated, write under way)
                 \* or partial (truncated, its writer gone)
  saves,         \* memory.ts: snapshots of saveState calls that have not opened the file
  botLogin,      \* github.tsx: botLogin, "" until authentication has succeeded
  ghReviews,     \* GitHub: ids of the PRs carrying a review by the bot
  last           \* the last admission, pipeline end or restart: what ran, for which id,
                 \* how it ended

vars == <<pendingPRs, instances, tasks, spawned, stateReviews, setOutputsSet,
          file, saves, botLogin, ghReviews, last>>

\* ------------------------------------------------------------ sequences
RECURSIVE SelectIdx(_, _, _)
\* Indices i >= from of 1..n with keep[i], in order.
SelectIdx(n, keep, from) ==
  IF from > n THEN <<>>
  ELSE IF keep[from] THEN <<from>> \o SelectIdx(n, keep, from + 1)
       ELSE SelectIdx(n, keep, from + 1)

\* Array.prototype.filter on a sequence, by a per-index keep flag.
FilterSeq(s, keep) ==
  LET idx == SelectIdx(Len(s), keep, 1)
  IN [k \in 1..Len(idx) |-> s[idx[k]]]

\* The ids of the events of a pending array.
IdsOf(s) == {s[i].id : i \in 1..Len(s)}

\* ----------------------------------------------------------------- ledger
\* state.tsx isReviewed, on a given reviews array.
IsReviewedIn(revs, prId) == \E i \in 1..Len(revs) : revs[i].prId = prId

\* state.tsx isReviewed(prId).
isReviewed(prId) == IsReviewedIn(stateReviews, prId)

\* A history handed out newest first.
getReviewHistoryReversed ==
  [i \in 1..Len(stateReviews) |-> stateReviews[Len(stateReviews) + 1 - i]]

\* state.tsx getReviewHistory().
getReviewHistory == stateReviews

\* JSON.stringify of one record (memory.ts saveState): a property whose
\* value is undefined is left out of the text.
StringifyRecord(r) ==
  [f \in {"prId"} \cup (IF r.verdict = Undefined THEN {} ELSE {"verdict"})
                  \cup (IF r.commentId = NoComment THEN {} ELSE {"commentId"})
     |-> r[f]]

\* JSON.stringify(state): the records of the snapshot, in order.
Stringify(revs) == [i \in 1..Len(revs) |-> StringifyRecord(revs[i])]

\* JSON.parse of one record (memory.ts getState): a property the text
\* lacks reads as undefined.
ParseRecord(j) ==
  [prId |-> j["prId"],
   verdict |-> IF "verdict" \in DOMAIN j THEN j["verdict"] ELSE Undefined,
   commentId |-> IF "commentId" \in DOMAIN j THEN j["commentId"] ELSE NoComment]

\* JSON.parse(data): the records of the file, in order.
Parse(text) == [i \in 1..Len(text) |-> ParseRecord(text[i])]

\* memory.ts getState: the parsed file, or null (here: no reviews) when the
\* file is missing or does not parse.
getState == IF file.kind = "ok" THEN Parse(file.reviews) ELSE <<>>

\* ------------------------------------------------------------ review tier
\* types/index.ts getReviewTier: the two literals it compares with.
QuickMaxLines == 50
StandardMaxLines == 300
NoTier == "none"

\* getReviewTier with < where the source has <=.
getReviewTierStrict(changedLines) ==
  IF changedLines < QuickMaxLines THEN "quick"
  ELSE IF changedLines < StandardMaxLines THEN "standard"
  ELSE "deep"

\* types/index.ts getReviewTier.
getReviewTier(changedLines) ==
  IF changedLines <= QuickMaxLines THEN "quick"
  ELSE IF changedLines <= StandardMaxLines THEN "standard"
  ELSE "deep"

\* ------------------------------------------------------- For/Show tree
\* The Show guard with its condition inverted.
ShowWhenInverted(pr, revs) == \E i \in 1..Len(revs) : revs[i].prId = pr.id

\* app.tsx: <Show when={() => !isReviewed(pr().id)}>.
ShowWhen(pr, revs) == ~IsReviewedIn(revs, pr.id)

\* The ReviewPR instances that exist after the reactive graph has settled.
Mounted(p, revs) == [i \in 1..Len(p) |-> ShowWhen(p[i], revs)]

\* A For that mounts ReviewPR for every entry without an instance, whatever
\* the Show guard says.
ToMountUngated(p, inst, revs) == {i \in 1..Len(p) : ~inst[i]}

\* Entries of p that get a new ReviewPR instance: shown and not yet mounted.
ToMount(p, inst, revs) == {i \in 1..Len(p) : ShowWhen(p[i], revs) /\ ~inst[i]}

\* review-pr.tsx: a freshly mounted ReviewPR, about to run its onMount.
NewTask(pr, run) ==
  [run |-> run, pr |-> pr, pc |-> "guard", calls |-> <<>>, tier |-> NoTier,
   verdict |-> Undefined, commentId |-> NoComment, committed |-> FALSE]

\* Tasks started by mounting the entries ToMount names.
MountTasks(p, inst, revs, base) ==
  LET m == ToMount(p, inst, revs)
  IN {NewTask(p[i], base + Cardinality({j \in m : j <= i})) : i \in m}

\* The reactive update after pendingPRs or the reviews changed: p is the new
\* pending array, inst the instance flags aligned with it, revs the new reviews.
Reconcile(p, inst, revs, ts) ==
  /\ instances' = Mounted(p, revs)
  /\ tasks' = ts \cup MountTasks(p, inst, revs, spawned)
  /\ spawned' = spawned + Cardinality(ToMount(p, inst, revs))

\* A pipeline between its start and its return; a task whose onMount threw
\* stays in tasks with pc "crashed" (it never returns and never resolves).
Active(t) == t.pc \in {"guard", "fetch", "generate", "post", "commit"}

\* ------------------------------------------------------------ HttpServer
\* http-server.tsx GET /api/reviews: one count of the stats object.
CountVerdict(history, v) ==
  Cardinality({i \in 1..Len(history) : history[i].verdict = v})

\* http-server.tsx GET /api/reviews: the JSON body built from the history.
ReviewsResponse(history) ==
  [reviews |-> history, total |-> Len(history),
   stats |-> [v \in Verdicts |-> CountVerdict(history, v)]]

\* The last step was no admission, pipeline end, restart or request.
Other ==
  [op |-> "other", id |-> 0, metric |-> 0, out |-> "", calls |-> <<>>,
   commentId |-> NoComment, committed |-> FALSE, body |-> ReviewsResponse(<<>>)]

\* http-server.tsx GET /api/reviews: the handler reads the history and
\* answers; the answer is kept in last.body.
GetReviews ==
  /\ last' = [Other EXCEPT !.op = "reviews",
                           !.body = ReviewsResponse(getReviewHistory)]
  /\ UNCHANGED <<pendingPRs, instances, tasks, spawned, stateReviews,
                 setOutputsSet, file, saves, botLogin, ghReviews>>

\* ------------------------------------------------------------------ Init
Init ==
  /\ pendingPRs = <<>>
  /\ instances = <<>>
  /\ tasks = {}
  /\ spawned = 0
  /\ stateReviews = <<>>
  /\ setOutputsSet = FALSE
  /\ file = [kind |-> "absent", reviews |-> <<>>, overwrote |-> FALSE]
  /\ saves = {}
  /\ botLogin = ""
  /\ ghReviews = {}
  /\ last = Other

\* ------------------------------------------------------- durable storage
\* memory.ts saveState, first half: writeFile opens the snapshot file in place,
\* truncating it; the new contents are not yet on disk. overwrote records
\* that the truncation destroyed a complete snapshot that held records.
SaveOpen(snap) ==
  /\ snap \in saves
  /\ file' = [kind |-> "writing", reviews |-> Stringify(snap),
              overwrote |-> ((file.kind = "ok" /\ file.reviews # <<>>)
                             \/ file.overwrote)]
  /\ saves' = saves \ {snap}
  /\ last' = Other
  /\ UNCHANGED <<pendingPRs, instances, tasks, spawned, stateReviews,
                 setOutputsSet, botLogin, ghReviews>>

\* memory.ts saveState, second half: the contents are written and the
\* promise resolves.
SaveClose ==
  /\ file.kind = "writing"
  /\ file' = [file EXCEPT !.kind = "ok", !.overwrote = FALSE]
  /\ last' = Other
  /\ UNCHANGED <<pendingPRs, instances, tasks, spawned, stateReviews,
                 setOutputsSet, saves, botLogin, ghReviews>>

\* ------------------------------------------------------------ StateManager
\* state.tsx, the useAsyncOutput handler: restore the previous reviews
\* (prev?.reviews ?? []) and expose setOutputs to the module. The outputs
\* are written through only when they are not the restored ones (first run,
\* or an unreadable file). The handler is async: until it has run,
\* state.reviews() is undefined (isReviewed sees []) and _setOutputs is null,
\* the case recordReview's "setOutputs not ready" branch is written for, so
\* webhooks and pipeline steps may run before it.
StateManagerInit ==
  /\ ~setOutputsSet
  /\ LET revs == getState
     IN /\ stateReviews' = revs
        /\ saves' = IF file.kind = "ok" THEN saves ELSE saves \cup {revs}
        /\ Reconcile(pendingPRs, instances, revs, tasks)
  /\ setOutputsSet' = TRUE
  /\ last' = Other
  /\ UNCHANGED <<pendingPRs, file, botLogin, ghReviews>>

\* An updater that forgets prev: the new array holds the new record only.
AppendReviewReplacing(prev, record) == <<record>>

\* recordReview returning the previous array: the record is dropped.
AppendReviewDropped(prev, record) == prev

\* An updater that puts the new record first: [record, ...prev.reviews].
AppendReviewFirst(prev, record) == <<record>> \o prev

\* state.tsx recordReview: the new reviews array, [...prev.reviews, record].
AppendReview(prev, record) == Append(prev, record)

\* state.tsx recordReview: TRUE when the record is handed to setOutputs,
\* FALSE when _setOutputs is null (warning, nothing persisted).
RecordReviewReady == setOutputsSet

\* ------------------------------------------------------------------ GitHub
\* github.tsx GitHub onMount: users.getAuthenticated succeeds (botLogin is
\* set) or throws (botLogin stays "").
GitHubMount ==
  /\ botLogin = ""
  /\ \E ok \in BOOLEAN : botLogin' = IF ok THEN "bot" ELSE ""
  /\ last' = Other
  /\ UNCHANGED <<pendingPRs, instances, tasks, spawned, stateReviews,
                 setOutputsSet, file, saves, ghReviews>>

\* A lookup that is made without a bot login too.
BotAlreadyCommentedAnyLogin(pr, listFails) ==
  IF listFails THEN FALSE ELSE pr.id \in ghReviews

\* github.tsx botAlreadyCommented: why it returned false: no bot login,
\* listReviews threw, or no review by the bot is listed.
GuardMiss(listFails) ==
  IF botLogin = "" THEN "no_login"
  ELSE IF listFails THEN "lookup_error"
  ELSE "not_found"

\* github.tsx botAlreadyCommented: false without a bot login or when
\* listReviews throws, otherwise whether a review by the bot exists.
BotAlreadyCommented(pr, listFails) ==
  IF botLogin = "" THEN FALSE
  ELSE IF listFails THEN FALSE
  ELSE pr.id \in ghReviews

\* ------------------------------------------------------------- App handlers
\* A first guard that asks GitHub instead of the reviews.
AlreadyReviewedOnGitHub(event) == event.id \in ghReviews

\* handlePullRequest without its durable-state guard.
AlreadyReviewedNever(event) == FALSE

\* app.tsx handlePullRequest, first guard: isReviewed(event.id).
AlreadyReviewed(event) == isReviewed(event.id)

\* handlePullRequest without its pending-queue guard.
AlreadyQueuedNever(event) == FALSE

\* app.tsx handlePullRequest, second guard: pendingPRs().some(pr => pr.id === event.id).
AlreadyQueued(event) == event.id \in IdsOf(pendingPRs)

\* app.tsx handlePullRequest: which of its three log lines the call ends with.
AdmitOutcome(event) ==
  IF AlreadyReviewed(event) THEN "skipped_reviewed"
  ELSE IF AlreadyQueued(event) THEN "skipped_queued"
  ELSE "queued"

\* An updater that puts the new event first: [event, ...current].
QueuedFirst(current, event) == <<event>> \o current

\* app.tsx handlePullRequest: the updater (current) => [...current, event].
Queued(current, event) == Append(current, event)

\* app.tsx handlePullRequest(event), with the reactive update it triggers.
HandlePullRequest(event) ==
  /\ AdmitOutcome(event) = "queued" => spawned < MaxRuns
  /\ last' = [op |-> "admit", id |-> event.id, metric |-> event.changedLines,
               out |-> AdmitOutcome(event), calls |-> <<>>,
               commentId |-> NoComment, committed |-> FALSE,
               body |-> ReviewsResponse(<<>>)]
  /\ IF AdmitOutcome(event) # "queued"
     THEN UNCHANGED <<pendingPRs, instances, tasks, spawned>>
     ELSE /\ pendingPRs' = Queued(pendingPRs, event)
          /\ Reconcile(pendingPRs', Append(instances, FALSE), stateReviews, tasks)
  /\ UNCHANGED <<stateReviews, setOutputsSet, file, saves, botLogin, ghReviews>>

\* handleReviewComplete with a filter that keeps every entry.
KeepOnCompleteAll(current, prId) == [i \in 1..Len(current) |-> TRUE]

\* A filter with its test inverted: it keeps the resolved id's entries only.
KeepOnCompleteInverted(current, prId) ==
  [i \in 1..Len(current) |-> current[i].id = prId]

\* app.tsx handleReviewComplete: which entries current.filter keeps.
KeepOnComplete(current, prId) == [i \in 1..Len(current) |-> current[i].id # prId]

\* app.tsx handleReviewComplete(prId), followed by the reactive update; revs
\* and ts are the reviews and tasks as the calling pipeline step leaves them.
HandleReviewComplete(prId, revs, ts) ==
  LET keep == KeepOnComplete(pendingPRs, prId)
  IN /\ pendingPRs' = FilterSeq(pendingPRs, keep)
     /\ Reconcile(pendingPRs', FilterSeq(instances, keep), revs, ts)

\* ------------------------------------------------------------- ReviewPR
\* review-pr.tsx parseReviewResult: what JSON.parse yields for each class of
\* response text; only text that fails to parse gets the fallback result.
ParseReviewResult(raw) ==
  CASE raw \in Verdicts     -> [isNull |-> FALSE, verdict |-> raw]
    [] raw = "not_json"     -> [isNull |-> FALSE, verdict |-> "comment"]
    [] raw = "null"         -> [isNull |-> TRUE,  verdict |-> Undefined]
    [] raw = "no_verdict"   -> [isNull |-> FALSE, verdict |-> Undefined]
    [] raw = "bad_verdict"  -> [isNull |-> FALSE, verdict |-> "reject"]

\* review-pr.tsx: commentId > 0 ? commentId : undefined.
RecordCommentId(commentId) == IF commentId > 0 THEN commentId ELSE NoComment

\* review-pr.tsx: the ReviewRecord handed to recordReview.
ReviewRecordOf(t) ==
  [prId |-> t.pr.id, verdict |-> t.verdict, commentId |-> RecordCommentId(t.commentId)]

\* The task t after it has made the call named c: botAlreadyCommented
\* ("guard"), fetchDiff ("fetch"), messages.create ("generate"),
\* postReviewComment ("post") or recordReview ("commit").
Called(t, c) == [t EXCEPT !.calls = Append(@, c)]

\* The end of a pipeline run: onComplete(pr.id) was called and onMount returned.
Ended(t, out) ==
  [op |-> "resolve", id |-> t.pr.id, metric |-> t.pr.changedLines,
   out |-> out, calls |-> t.calls, commentId |-> t.commentId,
   committed |-> t.committed, body |-> ReviewsResponse(<<>>)]

\* The guard path recording a synthesized review before it resolves.
GuardHitReviewsSynthesized(t) ==
  IF RecordReviewReady THEN AppendReview(stateReviews, ReviewRecordOf(t))
  ELSE stateReviews

\* review-pr.tsx Step 1, alreadyCommented branch: the reviews it leaves
\* behind. It logs, calls onComplete and returns; recordReview is not called.
GuardHitReviews(t) == stateReviews

\* A guard whose hit ends the run only after the diff was fetched.
GuardHitRunFetching(t) == Called(Called(t, "guard"), "fetch")

\* review-pr.tsx Step 1, alreadyCommented branch: the run as it ends, with
\* botAlreadyCommented its only call.
GuardHitRun(t) == Called(t, "guard")

\* review-pr.tsx Step 1: await github.botAlreadyCommented; when true,
\* onComplete(pr.id) and return. When false the run goes on to Step 2; last
\* keeps why the guard found nothing.
GuardStep(t) ==
  /\ t \in tasks /\ t.pc = "guard"
  /\ \E listFails \in BOOLEAN :
       IF BotAlreadyCommented(t.pr, listFails)
       THEN /\ stateReviews' = GuardHitReviews(t)
            /\ HandleReviewComplete(t.pr.id, stateReviews', tasks \ {t})
            /\ last' = Ended(GuardHitRun(t), "skipped")
       ELSE /\ tasks' = (tasks \ {t}) \cup {[Called(t, "guard") EXCEPT !.pc = "fetch"]}
            /\ last' = [Other EXCEPT !.op = "guard", !.id = t.pr.id,
                                     !.out = GuardMiss(listFails)]
            /\ UNCHANGED <<pendingPRs, instances, spawned, stateReviews>>
  /\ UNCHANGED <<setOutputsSet, file, saves, botLogin, ghReviews>>

\* review-pr.tsx Step 2: await github.fetchDiff; an empty diff (also what
\* fetchDiff returns on any error) ends the run with onComplete(pr.id).
\* Otherwise Step 3 follows at once: tier = getReviewTier(pr.changedLines).
FetchStep(t) ==
  /\ t \in tasks /\ t.pc = "fetch"
  /\ \E diffEmpty \in BOOLEAN :
       IF diffEmpty
       THEN /\ HandleReviewComplete(t.pr.id, stateReviews, tasks \ {t})
            /\ last' = Ended(Called(t, "fetch"), "aborted")
       ELSE /\ tasks' = (tasks \ {t}) \cup
                   {[Called(t, "fetch") EXCEPT
                       !.pc = "generate",
                       !.tier = getReviewTier(t.pr.changedLines)]}
            /\ last' = Other
            /\ UNCHANGED <<pendingPRs, instances, spawned>>
  /\ UNCHANGED <<stateReviews, setOutputsSet, file, saves, botLogin, ghReviews>>

\* A catch block that calls the inference API once more before giving up.
OnInferenceErrorRetrying(t) ==
  IF "generate" \notin {t.calls[i] : i \in 1..Len(t.calls)}
  THEN /\ tasks' = (tasks \ {t}) \cup {Called(t, "generate")}
       /\ last' = Other
       /\ UNCHANGED <<pendingPRs, instances, spawned>>
  ELSE /\ HandleReviewComplete(t.pr.id, stateReviews, tasks \ {t})
       /\ last' = Ended(Called(t, "generate"), "aborted")

\* review-pr.tsx Step 5, the catch block: log the error, onComplete, return.
OnInferenceError(t) ==
  /\ HandleReviewComplete(t.pr.id, stateReviews, tasks \ {t})
  /\ last' = Ended(Called(t, "generate"), "aborted")

\* review-pr.tsx Steps 3-5: tier, prompt, await client.messages.create inside
\* try/catch, parseReviewResult; then, outside the try, the read of
\* reviewResult.commentBody (a TypeError when the parsed value is null: the
\* async onMount rejects and never calls onComplete).
GenerateStep(t) ==
  /\ t \in tasks /\ t.pc = "generate"
  /\ \E apiThrows \in BOOLEAN, raw \in Raws :
       IF apiThrows
       THEN OnInferenceError(t)
       ELSE LET r == ParseReviewResult(raw)
                t1 == Called(t, "generate")
            IN /\ tasks' = (tasks \ {t}) \cup
                     {IF r.isNull THEN [t1 EXCEPT !.pc = "crashed"]
                      ELSE [t1 EXCEPT !.pc = "post", !.verdict = r.verdict]}
               /\ last' = Other
               /\ UNCHANGED <<pendingPRs, instances, spawned>>
  /\ UNCHANGED <<stateReviews, setOutputsSet, file, saves, botLogin, ghReviews>>

\* A Step 6 that calls postReviewComment a second time when the first
\* call returned -1.
PostedRetrying(t, ok) ==
  [(IF ok THEN Called(t, "post") ELSE Called(Called(t, "post"), "post")) EXCEPT
     !.pc = "commit",
     !.commentId = IF ok THEN ReviewId ELSE PostFailed]

\* review-pr.tsx Step 6: the run after its one postReviewComment call, with
\* the returned id as commentId.
Posted(t, ok) ==
  [Called(t, "post") EXCEPT
     !.pc = "commit",
     !.commentId = IF ok THEN ReviewId ELSE PostFailed]

\* github.tsx postReviewComment, as awaited by review-pr.tsx Step 6:
\* createReview succeeds (GitHub now carries the review, data.id is returned)
\* or throws (-1 is returned).
PostStep(t) ==
  /\ t \in tasks /\ t.pc = "post"
  /\ last' = Other
  /\ \E ok \in BOOLEAN :
       /\ ghReviews' = IF ok THEN ghReviews \cup {t.pr.id} ELSE ghReviews
       /\ tasks' = (tasks \ {t}) \cup {Posted(t, ok)}
  /\ UNCHANGED <<pendingPRs, instances, spawned, stateReviews, setOutputsSet,
                 file, saves, botLogin>>

\* review-pr.tsx line 148: reviewResult.verdict.toUpperCase() throws unless
\* the verdict is a string.
SuccessLogThrows(t) == t.verdict = Undefined

\* review-pr.tsx Step 7: recordReview(record), the success log, onComplete.
CommitStep(t) ==
  /\ t \in tasks /\ t.pc = "commit"
  /\ LET ready == RecordReviewReady
         revs == IF ready THEN AppendReview(stateReviews, ReviewRecordOf(t))
                 ELSE stateReviews
         t1 == [Called(t, "commit") EXCEPT !.committed = ready]
     IN /\ stateReviews' = revs
        /\ saves' = IF ready THEN saves \cup {revs} ELSE saves
        /\ IF SuccessLogThrows(t)
           THEN /\ Reconcile(pendingPRs, instances, revs,
                             (tasks \ {t}) \cup {[t1 EXCEPT !.pc = "crashed"]})
                /\ last' = Other
                /\ UNCHANGED pendingPRs
           ELSE /\ HandleReviewComplete(t.pr.id, revs, tasks \ {t})
                /\ last' = Ended(t1, "done")
  /\ UNCHANGED <<setOutputsSet, file, botLogin, ghReviews>>

\* ------------------------------------------------------------- the process
\* The process stops (crash or shutdown) and is started again: everything
\* in memory is lost, in-flight pipelines and writes are abandoned, GitHub
\* keeps its reviews, and the snapshot file keeps what is on disk: a file
\* whose write was under way stays truncated.
Restart ==
  /\ pendingPRs' = <<>>
  /\ instances' = <<>>
  /\ tasks' = {}
  /\ stateReviews' = <<>>
  /\ setOutputsSet' = FALSE
  /\ saves' = {}
  /\ file' = IF file.kind = "writing"
             THEN [file EXCEPT !.kind = "partial", !.reviews = <<>>]
             ELSE file
  /\ botLogin' = ""
  /\ last' = [Other EXCEPT !.op = "restart"]
  /\ UNCHANGED <<spawned, ghReviews>>

Next ==
  \/ StateManagerInit
  \/ GitHubMount
  \/ \E event \in Events : HandlePullRequest(event)
  \/ \E t \in tasks : GuardStep(t)
  \/ \E t \in tasks : FetchStep(t)
  \/ \E t \in tasks : GenerateStep(t)
  \/ \E t \in tasks : PostStep(t)
  \/ \E t \in tasks : CommitStep(t)
  \/ \E snap \in saves : SaveOpen(snap)
  \/ SaveClose
  \/ Restart

Spec == Init /\ [][Next]_vars

\* One run of the process, from render() to its end: every step but Restart.
NextOneProcess ==
  \/ StateManagerInit
  \/ GitHubMount
  \/ \E event \in Events : HandlePullRequest(event)
  \/ \E t \in tasks : GuardStep(t)
  \/ \E t \in tasks : FetchStep(t)
  \/ \E t \in tasks : GenerateStep(t)
  \/ \E t \in tasks : PostStep(t)
  \/ \E t \in tasks : CommitStep(t)
  \/ \E snap \in saves : SaveOpen(snap)
  \/ SaveClose

SpecOneProcess == Init /\ [][NextOneProcess]_vars

\* ---------------------------------------------------------------- Channel
\* pr.id of a payload whose pull_request object has no id (undefined).
NoId == 0

\* The X-Hub-Signature-256 header of a request: absent, a string whose
\* length differs from the expected one, a string of the expected length
\* that is not the HMAC of the body, or the HMAC of the body.
Signatures == {"missing", "short", "forged", "valid"}

\* payload.action values: the three tracked ones and one that is not.
TrackedActions == {"opened", "synchronize", "reopened"}
PayloadActions == TrackedActions \cup {"closed"}

\* Classes of the request body: text that is not JSON, a JSON object without
\* pull_request, one without repository, and one in which every object the
\* handler reads from is present.
PayloadShapes == {"not_json", "no_pull_request", "no_repository", "complete"}

\* payload.pull_request as far as the handler's result depends on it: its
\* id, absent in one, and additions + deletions.
PayloadPRs == Events \cup {[id |-> NoId, changedLines |-> 50]}

\* The requests POST /webhook may receive.
Deliveries ==
  [sig : Signatures, event : {"pull_request", "push"}, action : PayloadActions,
   shape : PayloadShapes, pr : PayloadPRs]

\* channel.tsx verifySignature: false without a signature, false when
\* timingSafeEqual throws (lengths differ), else the comparison's result.
verifySignature(signature) ==
  CASE signature = "missing" -> FALSE
    [] signature = "short"   -> FALSE
    [] signature = "forged"  -> FALSE
    [] signature = "valid"   -> TRUE

\* channel.tsx, the 'end' handler: the response it ends with; "emit" stands
\* for the path that calls props.onPullRequest. The catch answers 400 for a
\* body that does not parse and for a read from an absent object.
ChannelOutcome(d) ==
  IF ~verifySignature(d.sig) THEN "401"
  ELSE IF d.event # "pull_request" THEN "ignored"
  ELSE IF d.shape = "not_json" THEN "400"
  ELSE IF d.action \notin TrackedActions THEN "not_tracked"
  ELSE IF d.shape \in {"no_pull_request", "no_repository"} THEN "400"
  ELSE "emit"

\* channel.tsx: the PullRequestEvent built from the payload.
PrEventOf(d) == [id |-> d.pr.id, changedLines |-> d.pr.changedLines]

\* channel.tsx: a request to POST /webhook has arrived with its whole body;
\* the 'end' handler has not run yet. One request is handled at a time.
ChannelRequest(d) ==
  /\ last.op # "delivery"
  /\ last' = [op |-> "delivery", delivery |-> d]
  /\ UNCHANGED <<pendingPRs, instances, tasks, spawned, stateReviews,
                 setOutputsSet, file, saves, botLogin, ghReviews>>

\* channel.tsx, the 'end' handler of the request kept in last.
ChannelEnd ==
  /\ last.op = "delivery"
  /\ IF ChannelOutcome(last.delivery) = "emit"
     THEN HandlePullRequest(PrEventOf(last.delivery))
     ELSE /\ last' = [Other EXCEPT !.op = "response",
                                   !.out = ChannelOutcome(last.delivery)]
          /\ UNCHANGED <<pendingPRs, instances, tasks, spawned, stateReviews,
                         setOutputsSet, file, saves, botLogin, ghReviews>>

\* The webhook intake on its own: requests and their handling.
NextChannel ==
  \/ \E d \in Deliveries : ChannelRequest(d)
  \/ ChannelEnd

SpecChannel == Init /\ [][NextChannel]_vars

\* The process with its stops and starts, and the webhooks of one pull
\* request only.
OneItemEvents == {event \in Events : event.id = 1 /\ event.changedLines = 50}

NextOneItem ==
  \/ StateManagerInit
  \/ GitHubMount
  \/ \E event \in OneItemEvents : HandlePullRequest(event)
  \/ \E t \in tasks : GuardStep(t)
  \/ \E t \in tasks : FetchStep(t)
  \/ \E t \in tasks : GenerateStep(t)
  \/ \E t \in tasks : PostStep(t)
  \/ \E t \in tasks : CommitStep(t)
  \/ \E snap \in saves : SaveOpen(snap)
  \/ SaveClose
  \/ Restart

SpecOneItem == Init /\ [][NextOneItem]_vars

\* getReviewTier on its own: the input is any changedLines value from 0 to
\* MaxChangedLines (kept in last.metric), TierStep applies the function.
InitTier ==
  /\ pendingPRs = <<>> /\ instances = <<>> /\ tasks = {} /\ spawned = 0
  /\ stateReviews = <<>> /\ setOutputsSet = FALSE
  /\ file = [kind |-> "absent", reviews |-> <<>>, overwrote |-> FALSE]
  /\ saves = {} /\ botLogin = "" /\ ghReviews = {}
  /\ \E n \in 0..MaxChangedLines :
       last = [Other EXCEPT !.op = "input", !.metric = n]

TierStep ==
  /\ last.op = "input"
  /\ last' = [last EXCEPT !.op = "tier", !.out = getReviewTier(last.metric)]
  /\ UNCHANGED <<pendingPRs, instances, tasks, spawned, stateReviews,
                 setOutputsSet, file, saves, botLogin, ghReviews>>

\* ----------------------------------------------------------------- prompt
\* prompts/review.ts: the number of characters of the diff a prompt takes.
DiffLimit == 12000

\* String.prototype.slice(start, end) on a string of len characters, for
\* 0 <= start <= end: the characters from index from up to, not including,
\* index to.
StringSlice(len, start, end) ==
  [from |-> IF start < len THEN start ELSE len,
   to |-> IF end < len THEN end ELSE len]

\* A DIFF section that adds the marker from DiffLimit characters on.
DiffSectionMarkedAtLimit(len) ==
  [text |-> StringSlice(len, 0, DiffLimit), marker |-> len >= DiffLimit]

\* prompts/review.ts buildReviewPrompt, the DIFF section of the user message
\* for a diff of len characters: the slice of the diff it holds, and whether
\* the "[diff truncated ...]" marker follows.
DiffSection(len) ==
  [text |-> StringSlice(len, 0, DiffLimit), marker |-> len > DiffLimit]

\* buildReviewPrompt on its own: the input is a diff of any length from 1
\* to MaxDiffLen (kept in last.metric; ReviewPR builds no prompt for an
\* empty diff), PromptStep builds the DIFF section.
InitPrompt ==
  /\ pendingPRs = <<>> /\ instances = <<>> /\ tasks = {} /\ spawned = 0
  /\ stateReviews = <<>> /\ setOutputsSet = FALSE
  /\ file = [kind |-> "absent", reviews |-> <<>>, overwrote |-> FALSE]
  /\ saves = {} /\ botLogin = "" /\ ghReviews = {}
  /\ \E n \in 1..MaxDiffLen :
       last = [Other EXCEPT !.op = "diff", !.metric = n]

PromptStep ==
  /\ last.op = "diff"
  /\ last' = [last EXCEPT !.op = "prompt", !.body = DiffSection(last.metric)]
  /\ UNCHANGED <<pendingPRs, instances, tasks, spawned, stateReviews,
                 setOutputsSet, file, saves, botLogin, ghReviews>>

NextPrompt == PromptStep

SpecPrompt == InitPrompt /\ [][NextPrompt]_vars

\* One run of the process with the dashboard's requests.
NextQuery == NextOneProcess \/ GetReviews

SpecQuery == Init /\ [][NextQuery]_vars

NextTier == TierStep

SpecTier == InitTier /\ [][NextTier]_vars

\* ------------------------------------------------------------- properties
ActiveFor(id) == {t \in tasks : Active(t) /\ t.pr.id = id}
RecordsFor(revs, id) == {i \in 1..Len(revs) : revs[i].prId = id}
IsAdmit(l) == l.op = "admit"
IsResolve(l) == l.op = "resolve"
IsRestart(l) == l.op = "restart"

\* C1: each itemId has at most one active (spawned, not yet returned)
\* pipeline, also after the same id was admitted again before it resolved.
AtMostOneActivePipeline == \A id \in ItemIds : Cardinality(ActiveFor(id)) <= 1

\* C1 witness: a second event for an id was just delivered while the id was
\* pending, and its one pipeline is running.
DuplicateAdmitWhileRunning ==
  /\ IsAdmit(last) /\ last.out = "skipped_queued"
  /\ Cardinality(ActiveFor(last.id)) = 1

\* C2: within one process, once isReviewed(id) holds it holds for good, and
\* a handlePullRequest call for that id changes neither pendingPRs nor the
\* pipelines.
CompletionFinality ==
  [][\A id \in ItemIds :
       isReviewed(id) =>
         /\ ~IsRestart(last') => IsReviewedIn(stateReviews', id)
         /\ (IsAdmit(last') /\ last'.id = id) =>
              (pendingPRs' = pendingPRs /\ tasks' = tasks /\ instances' = instances)]_vars

\* C2 witness: an event for an already reviewed id was delivered.
AdmitAfterCompletion ==
  IsAdmit(last) /\ last.out = "skipped_reviewed" /\ isReviewed(last.id)

\* C3: when the snapshot on disk holds a record for an id, no step starts a
\* pipeline for that id (before the first restart none does: an id on disk
\* is reviewed in memory).
RestartSafety ==
  [][\A id \in ItemIds :
       (file.kind = "ok" /\ IsReviewedIn(getState, id)) =>
         ~(\E t \in tasks' \ tasks : t.pr.id = id)]_vars

\* C4: the ledger holds at most one record per itemId.
AtMostOneRecordPerId ==
  \A id \in ItemIds : Cardinality(RecordsFor(stateReviews, id)) <= 1

\* C5: a handlePullRequest call for an id already pending leaves pendingPRs
\* (and the pending event) unchanged; a call for an id neither pending nor
\* reviewed appends the event and starts exactly one pipeline, for that event.
AdmitFrame ==
  [][IsAdmit(last') =>
       LET id == last'.id
           n == Len(pendingPRs)
       IN /\ id \in IdsOf(pendingPRs) => (pendingPRs' = pendingPRs /\ tasks' = tasks)
          /\ (id \notin IdsOf(pendingPRs) /\ ~isReviewed(id)) =>
               /\ Len(pendingPRs') = n + 1
               /\ SubSeq(pendingPRs', 1, n) = pendingPRs
               /\ pendingPRs'[n + 1] = [id |-> id, changedLines |-> last'.metric]
               /\ tasks \subseteq tasks'
               /\ Cardinality(tasks' \ tasks) = 1
               /\ \A t \in tasks' \ tasks : t.pr = pendingPRs'[n + 1] /\ t.pc = "guard"]_vars

\* C5 witness: a duplicate event with another payload than the pending one
\* was delivered and the pending event is still the original.
DuplicateWithOtherPayload ==
  /\ IsAdmit(last) /\ last.out = "skipped_queued"
  /\ \E i \in 1..Len(pendingPRs) :
       pendingPRs[i].id = last.id /\ pendingPRs[i].changedLines # last.metric

\* C6: after a recordReview call that handed its record to setOutputs has
\* returned, isReviewed holds for the record's id: right after the pipeline
\* ended, and for as long as a pipeline that recorded is still known.
ReadYourWrite ==
  /\ (IsResolve(last) /\ last.committed) => isReviewed(last.id)
  /\ \A t \in tasks : t.committed => isReviewed(t.pr.id)

\* C6 witness: a pipeline has just recorded its review and ended.
JustCommitted == IsResolve(last) /\ last.out = "done" /\ last.committed

\* C7: every pipeline ends by calling onComplete: none stops without it.
EveryPipelineResolves == \A t \in tasks : Active(t)

\* C8: a process stop during a snapshot write never leaves the file
\* truncated where a complete snapshot with records had been.
CommitAtomicity == ~(file.kind = "partial" /\ file.overwrote)

\* C9 as stated: a pipeline ended by the duplicate guard leaves a record for
\* its id in the ledger.
GuardHitRecords == (IsResolve(last) /\ last.out = "skipped") => isReviewed(last.id)

\* C9 as amended: a pipeline ended by the duplicate guard resolves its id
\* and writes nothing: the reviews and the queued snapshot writes are unchanged.
GuardHitResolvesOnly ==
  [][(IsResolve(last') /\ last'.out = "skipped") =>
       /\ stateReviews' = stateReviews
       /\ saves' = saves
       /\ last'.id \in IdsOf(pendingPRs)
       /\ last'.id \notin IdsOf(pendingPRs')]_vars

\* C9 witness: the guard ended a pipeline and the id is not in the ledger.
GuardHitUnrecorded ==
  IsResolve(last) /\ last.out = "skipped" /\ ~isReviewed(last.id)

\* C10: a pipeline whose fetch, inference call and recordReview succeeded
\* has ended with its id out of pendingPRs and exactly one record for it.
EndToEndSuccess ==
  /\ \A t \in tasks : t.committed => t.pr.id \notin IdsOf(pendingPRs)
  /\ (IsResolve(last) /\ last.out = "done" /\ last.committed) =>
       /\ last.id \notin IdsOf(pendingPRs)
       /\ Cardinality(RecordsFor(stateReviews, last.id)) = 1

\* The calls a pipeline had made when it ended, and the last of them.
CallsOf(l) == {l.calls[i] : i \in 1..Len(l.calls)}
EndedAfter(l, c, out) ==
  /\ IsResolve(l) /\ l.out = out
  /\ Len(l.calls) > 0 /\ l.calls[Len(l.calls)] = c

\* C11: a pipeline whose fetchDiff returned the empty string (no diff, or
\* the request failed) ends there: it has called neither the inference API
\* nor postReviewComment nor recordReview, its last step leaves GitHub's
\* reviews, the ledger and the queued snapshot writes unchanged, and its id
\* leaves pendingPRs.
FetchAbort ==
  [][EndedAfter(last', "fetch", "aborted") =>
       /\ CallsOf(last') \cap {"generate", "post", "commit"} = {}
       /\ ghReviews' = ghReviews
       /\ stateReviews' = stateReviews
       /\ saves' = saves
       /\ last'.id \in IdsOf(pendingPRs)
       /\ last'.id \notin IdsOf(pendingPRs')
       /\ ~(\E t \in tasks' : Active(t) /\ t.pr.id = last'.id)]_vars

\* C11 witness: a pipeline has just ended on an empty diff, its id is
\* neither pending nor in the ledger, and nothing was posted.
FetchAborted ==
  /\ EndedAfter(last, "fetch", "aborted")
  /\ last.id \notin IdsOf(pendingPRs)
  /\ ~isReviewed(last.id)
  /\ ghReviews = {}

\* C12: in one run of the process, however often an id was delivered again
\* while its pipeline was running, a pipeline that ended after recordReview
\* stored its record leaves exactly one record for the id, and no id ever
\* has more than one.
ExactlyOneRecordAfterSuccess ==
  /\ (IsResolve(last) /\ last.out = "done" /\ last.committed) =>
       Cardinality(RecordsFor(stateReviews, last.id)) = 1
  /\ \A id \in ItemIds :
       isReviewed(id) => Cardinality(RecordsFor(stateReviews, id)) = 1

\* C12 witness: the id was just delivered again while its pipeline stands
\* before recordReview with the store ready and a verdict to log: the next
\* step of that pipeline stores the record and ends it.
DuplicateAdmitBeforeCommit ==
  /\ IsAdmit(last) /\ last.out = "skipped_queued"
  /\ RecordReviewReady
  /\ \E t \in ActiveFor(last.id) : t.pc = "commit" /\ ~SuccessLogThrows(t)
  /\ ~isReviewed(last.id)

\* C13: a pipeline whose inference call threw ends there, after one call:
\* it has called neither postReviewComment nor recordReview, its last step
\* leaves GitHub's reviews, the ledger and the queued snapshot writes
\* unchanged, and its id leaves pendingPRs with no pipeline left for it.
InferenceAbort ==
  [][EndedAfter(last', "generate", "aborted") =>
       /\ last'.calls = <<"guard", "fetch", "generate">>
       /\ ~last'.committed
       /\ ghReviews' = ghReviews
       /\ stateReviews' = stateReviews
       /\ saves' = saves
       /\ last'.id \in IdsOf(pendingPRs)
       /\ last'.id \notin IdsOf(pendingPRs')
       /\ ~(\E t \in tasks' : Active(t) /\ t.pr.id = last'.id)]_vars

\* C13 witness: a pipeline has just ended on a failed inference call; its
\* id is neither pending nor in the ledger and GitHub has no review for it.
InferenceAborted ==
  /\ EndedAfter(last, "generate", "aborted")
  /\ last.id \notin IdsOf(pendingPRs)
  /\ ~isReviewed(last.id)
  /\ last.id \notin ghReviews

\* C14: whatever text the inference call returned, the pipeline goes on to
\* postReviewComment and recordReview: no pipeline stops between the
\* inference result and the post.
InferenceResultProceeds ==
  \A t \in tasks :
    "generate" \in {t.calls[i] : i \in 1..Len(t.calls)} =>
      (t.pc \in {"post", "commit"} \/
       "post" \in {t.calls[i] : i \in 1..Len(t.calls)})

\* C15: a pipeline whose postReviewComment failed still stores its record
\* and ends with onComplete: none stops after a failed post, and each such
\* run ends after recordReview stored a record without commentId.
PublishFailureStillCompletes ==
  /\ \A t \in tasks : t.commentId = PostFailed => t.pc = "commit"
  /\ (IsResolve(last) /\ last.commentId = PostFailed) =>
       /\ last.out = "done" /\ last.committed
       /\ \E i \in RecordsFor(stateReviews, last.id) :
            stateReviews[i].commentId = NoComment

\* C16: a pipeline whose recordReview dropped its record (the store was not
\* ready) has ended with onComplete: its id is out of pendingPRs and not in
\* the ledger, and the next event for the id is queued again.
CommitFailureResolves ==
  /\ \A t \in tasks :
       ("commit" \in {t.calls[i] : i \in 1..Len(t.calls)} /\ ~t.committed) =>
         t.pc # "crashed"
  /\ (IsResolve(last) /\ "commit" \in CallsOf(last) /\ ~last.committed) =>
       /\ ~isReviewed(last.id)
       /\ last.id \notin IdsOf(pendingPRs)
       /\ \A event \in Events :
            event.id = last.id => AdmitOutcome(event) = "queued"

\* C17: a pipeline whose recordReview dropped its record does not end on
\* the success path (the "reviewed" log line): its end is an abort.
FailedCommitNotSuccess ==
  (IsResolve(last) /\ "commit" \in CallsOf(last) /\ ~last.committed) =>
    last.out = "aborted"

\* C18: no step starts a pipeline for an id that has a record in the
\* reviews, before or after the step: an entry of pendingPRs whose id got
\* reviewed while it was pending never gets a new ReviewPR instance.
NoSpawnForCompleted ==
  [][\A t \in tasks' \ tasks :
       t.pc = "guard" =>
         /\ ~IsReviewedIn(stateReviews, t.pr.id)
         /\ ~IsReviewedIn(stateReviews', t.pr.id)]_vars

\* C18 witness: an id is in the reviews and still in pendingPRs, without an
\* instance, and the reactive update after the admission of another id has
\* just run and started that other id's pipeline only.
CompletedWhilePending ==
  /\ IsAdmit(last) /\ last.out = "queued"
  /\ \E i \in 1..Len(pendingPRs) :
       /\ pendingPRs[i].id # last.id
       /\ isReviewed(pendingPRs[i].id)
       /\ ~instances[i]
       /\ ~(\E t \in tasks : t.pr.id = pendingPRs[i].id /\ t.pc = "guard")

\* Every pipeline starts in the step that queues an event for its id: no
\* other step (a pipeline's end, the store load, a save) starts one.
SpawnOnlyOnAdmit ==
  [][\A t \in tasks' \ tasks :
       t.pc = "guard" =>
         IsAdmit(last') /\ last'.out = "queued" /\ last'.id = t.pr.id]_vars

\* C19: after a pipeline ended without recording (empty diff, failed
\* inference call) its id is neither pending nor reviewed, so that the next
\* event for the id is queued again.
AbortedIdAdmittedAgain ==
  (IsResolve(last) /\ last.out = "aborted") =>
    /\ last.id \notin IdsOf(pendingPRs)
    /\ ~isReviewed(last.id)
    /\ \A event \in Events : event.id = last.id => AdmitOutcome(event) = "queued"

\* The entries of pendingPRs, and the records, of the ids other than id, in
\* their order.
PendingOthers(p, id) == FilterSeq(p, [i \in 1..Len(p) |-> p[i].id # id])
RecordsOthers(revs, id) == FilterSeq(revs, [i \in 1..Len(revs) |-> revs[i].prId # id])

\* C20: a step of one id's pipeline (a stage, an abort, the end, a throw)
\* leaves the other ids' entries of pendingPRs, in their order, their
\* pipelines with their stages, and their records unchanged; a step that
\* ends the pipeline removes exactly that id's entry from pendingPRs.
FailureIsolation ==
  [][\A t \in tasks \ tasks' :
       ~IsRestart(last') =>
         /\ PendingOthers(pendingPRs', t.pr.id) = PendingOthers(pendingPRs, t.pr.id)
         /\ {u \in tasks' : u.pr.id # t.pr.id} = {u \in tasks : u.pr.id # t.pr.id}
         /\ RecordsOthers(stateReviews', t.pr.id) = RecordsOthers(stateReviews, t.pr.id)
         /\ IsResolve(last') =>
              /\ last'.id = t.pr.id
              /\ pendingPRs' = PendingOthers(pendingPRs, t.pr.id)]_vars

\* C20 witness: one id's pipeline has just aborted while another id is
\* pending with its pipeline past the guard and before its end.
AbortedBesideOther ==
  /\ IsResolve(last) /\ last.out = "aborted"
  /\ \E t \in tasks :
       /\ t.pr.id # last.id
       /\ t.pc \in {"fetch", "generate", "post", "commit"}
       /\ t.pr.id \in IdsOf(pendingPRs)

\* C21: a recordReview call that hands its record to setOutputs appends
\* exactly that record: whatever the other pipelines did before or between
\* this pipeline's steps, the records already in the reviews stay, each
\* unmodified and in place.
ConcurrentCommitsKeepRecords ==
  [][\A t \in tasks \ tasks' :
       (t.pc = "commit" /\ RecordReviewReady /\ ~IsRestart(last')) =>
         /\ Len(stateReviews') = Len(stateReviews) + 1
         /\ SubSeq(stateReviews', 1, Len(stateReviews)) = stateReviews
         /\ stateReviews'[Len(stateReviews')].prId = t.pr.id
         /\ stateReviews'[Len(stateReviews')].verdict = t.verdict]_vars

\* C21 witness: a pipeline has just stored its record after the other id's
\* record was stored: the reviews hold both records, the other id's first.
BothCommitted ==
  /\ IsResolve(last) /\ last.out = "done" /\ last.committed
  /\ Len(stateReviews) = 2
  /\ stateReviews[1].prId # last.id
  /\ stateReviews[2].prId = last.id
  /\ spawned = 2

\* C22: when the process stops, an id whose pipeline was running and had
\* not yet called recordReview has no record in the snapshot the next run
\* loads (so that, pendingPRs being empty after the start, the next event
\* for the id is queued and starts a pipeline).
AbandonedNotCompleted ==
  [][IsRestart(last') =>
       \A t \in tasks :
         (Active(t) /\ t.pc # "commit" /\ ~t.committed) =>
           ~IsReviewedIn(getState', t.pr.id)]_vars

\* C23: a stop of the process drops no pull request: an id that was in
\* pendingPRs without a record in the snapshot is in pendingPRs again when
\* the process has started (it is reviewed without a new webhook).
PendingSurvivesRestart ==
  [][IsRestart(last') =>
       \A i \in 1..Len(pendingPRs) :
         ~IsReviewedIn(getState', pendingPRs[i].id) =>
           pendingPRs[i].id \in IdsOf(pendingPRs')]_vars

\* C24: getReviewTier gives one of the three tiers for every changedLines
\* from 0 on: quick exactly up to 50, standard exactly from 51 to 300, deep
\* exactly above 300.
TierBoundaries ==
  last.op = "tier" =>
    /\ last.out \in {"quick", "standard", "deep"}
    /\ last.out = "quick" <=> last.metric <= 50
    /\ last.out = "standard" <=> (50 < last.metric /\ last.metric <= 300)
    /\ last.out = "deep" <=> last.metric > 300
    /\ last.metric = 50 => last.out = "quick"
    /\ last.metric = 51 => last.out = "standard"
    /\ last.metric = 300 => last.out = "standard"
    /\ last.metric = 301 => last.out = "deep"

\* C24 witness: the function was applied to 301 and gave deep.
TierOf301 == last.op = "tier" /\ last.metric = 301 /\ last.out = "deep"

\* C25: the answer to GET /api/reviews lists exactly the records of the
\* reviews, whole and in the order they were recorded, and the request
\* changes nothing: not the reviews, pendingPRs, the pipelines, the queued
\* snapshot writes or the file, whatever stands between the steps of the
\* running pipelines.
QueryReadOnly ==
  [][last'.op = "reviews" =>
       /\ last'.body.reviews = stateReviews
       /\ \A i \in 1..Len(last'.body.reviews) :
            DOMAIN last'.body.reviews[i] = {"prId", "verdict", "commentId"}
       /\ stateReviews' = stateReviews
       /\ pendingPRs' = pendingPRs
       /\ instances' = instances
       /\ tasks' = tasks
       /\ saves' = saves
       /\ file' = file]_vars

\* C25 witness: the request was answered with the one record stored so
\* far, while the other id's pipeline stands before recordReview and the
\* snapshot write of the first record is under way.
QueryBetweenCommits ==
  /\ last.op = "reviews"
  /\ Len(last.body.reviews) = 1
  /\ \E t \in tasks : t.pc = "commit" /\ t.pr.id # last.body.reviews[1].prId
  /\ file.kind = "writing"
  /\ Parse(file.reviews) = last.body.reviews

\* C26: in the answer to GET /api/reviews each of the three counts is the
\* number of listed records with that verdict, and the three counts add up
\* to the number of listed records.
StatsSumToTotal ==
  last.op = "reviews" =>
    /\ \A v \in Verdicts :
         last.body.stats[v] =
           Cardinality({i \in 1..Len(last.body.reviews) :
                          last.body.reviews[i].verdict = v})
    /\ last.body.stats["approve"] + last.body.stats["request_changes"]
         + last.body.stats["comment"] = Len(last.body.reviews)

\* C27: a pipeline that botAlreadyCommented ended has made that call only:
\* no fetchDiff, no inference call, no postReviewComment; its last step
\* leaves GitHub's reviews unchanged and no pipeline of its id running.
GuardHitCallsNothing ==
  [][(IsResolve(last') /\ last'.out = "skipped") =>
       /\ last'.calls = <<"guard">>
       /\ CallsOf(last') \cap {"fetch", "generate", "post"} = {}
       /\ ghReviews' = ghReviews
       /\ ~(\E t \in tasks' : Active(t) /\ t.pr.id = last'.id)]_vars

\* C27 witness: the guard has just ended a pipeline for an id that GitHub
\* holds a review of the bot for.
GuardHitSkipped ==
  /\ IsResolve(last) /\ last.out = "skipped"
  /\ botLogin # ""
  /\ last.id \in ghReviews
  /\ ActiveFor(last.id) = {}

\* C28: recordReview comes before onComplete: the id of a running pipeline
\* is in pendingPRs, and the id of a pipeline that ended after its record
\* was stored is in the reviews, so at no moment of such a run is an event
\* for the id queued.
CommitBeforeResolve ==
  /\ \A t \in tasks :
       (Active(t) \/ t.committed) =>
         /\ t.pr.id \in IdsOf(pendingPRs) \/ isReviewed(t.pr.id)
         /\ \A event \in Events :
              event.id = t.pr.id => AdmitOutcome(event) # "queued"
  /\ (IsResolve(last) /\ last.committed) =>
       /\ isReviewed(last.id)
       /\ \A event \in Events :
            event.id = last.id => AdmitOutcome(event) = "skipped_reviewed"

\* C28 witness: a pipeline has just ended after storing its record: its id
\* has left pendingPRs and is in the reviews.
ResolvedAfterCommit ==
  /\ IsResolve(last) /\ last.out = "done" /\ last.committed
  /\ last.calls = <<"guard", "fetch", "generate", "post", "commit">>
  /\ last.id \notin IdsOf(pendingPRs)
  /\ isReviewed(last.id)

\* The calls of a complete run, in the order of the source.
StageCalls == <<"guard", "fetch", "generate", "post", "commit">>
InStageOrder(c) == Len(c) <= Len(StageCalls) /\ c = SubSeq(StageCalls, 1, Len(c))

\* C29: the calls of every run, running, stopped or just ended, are an
\* initial part of guard, fetch, generate, post, commit, each made once; the
\* tier is set exactly from the fetch on, from the pull request's size; a
\* run is at the post only with the result of its inference call, and at
\* recordReview only with the post call made.
StageOrder ==
  /\ \A t \in tasks :
       /\ InStageOrder(t.calls)
       /\ t.tier # NoTier <=> Len(t.calls) >= 2
       /\ t.tier # NoTier => t.tier = getReviewTier(t.pr.changedLines)
       /\ t.pc = "guard" <=> t.calls = <<>>
       /\ t.pc = "fetch" <=> t.calls = SubSeq(StageCalls, 1, 1)
       /\ t.pc = "generate" <=> t.calls = SubSeq(StageCalls, 1, 2)
       /\ t.pc = "post" => t.calls = SubSeq(StageCalls, 1, 3)
       /\ t.pc = "commit" <=> t.calls = SubSeq(StageCalls, 1, 4)
       /\ t.commentId # NoComment <=> Len(t.calls) >= 4
       /\ t.committed => t.calls = StageCalls
  /\ IsResolve(last) =>
       /\ InStageOrder(last.calls)
       /\ last.out = "done" <=> last.calls = StageCalls

\* C29 witness: a run has ended after all five calls, each made once.
FullRunEnded ==
  /\ IsResolve(last) /\ last.out = "done"
  /\ last.calls = StageCalls
  /\ last.commentId = ReviewId

\* C30: when the store is loaded and every snapshot write has finished, the
\* snapshot file holds exactly the reviews of the process.
SnapshotMatchesMemory ==
  (setOutputsSet /\ saves = {} /\ file.kind = "ok") =>
    getState = stateReviews

\* The StateManager handler runs in this step: the ledger is loaded.
IsLoad == ~setOutputsSet /\ setOutputsSet'

\* C31: the ledger loaded at a start is the record sequence, in order, of
\* the last snapshot whose write completed before the stop, and is empty
\* when no write ever completed; what a write puts on disk parses back to
\* the snapshot it was given.
LoadEqualsLastSaved ==
  [][/\ (file'.kind = "writing" /\ file' # file) =>
          \E snap \in saves : saves' = saves \ {snap} /\ Parse(file'.reviews) = snap
     /\ (IsLoad /\ file.kind = "ok") => stateReviews' = Parse(file.reviews)
     /\ (IsLoad /\ file.kind # "ok") => (stateReviews' = <<>> /\ ~file.overwrote)]_vars

\* C32: the reviews only grow at the end: every step of a process keeps the
\* records it found, each unmodified and in place; the only step that adds
\* one is a recordReview call, which puts its record after all the others;
\* and getReviewHistory hands the records out in that order.
LedgerAppendOnly ==
  [][/\ Len(stateReviews') >= Len(stateReviews)
     /\ SubSeq(stateReviews', 1, Len(stateReviews)) = stateReviews
     /\ stateReviews' # stateReviews =>
          \E t \in tasks \ tasks' :
            /\ t.pc = "commit"
            /\ stateReviews' = Append(stateReviews, ReviewRecordOf(t))
     /\ getReviewHistory' = stateReviews']_vars

\* C32 witness: two recordReview calls have acted and both snapshots are
\* written: the history holds the two records, and the file holds them in
\* the same order.
TwoRecordsKept ==
  /\ Len(getReviewHistory) = 2
  /\ getReviewHistory[1].prId # getReviewHistory[2].prId
  /\ saves = {} /\ file.kind = "ok"
  /\ getState = getReviewHistory

\* C33: pendingPRs never holds two events with the same id; a step changes
\* it only by a handlePullRequest call that queues its event, which puts the
\* event after all the others, or by the end of a pipeline, which removes
\* the events of that pipeline's id and keeps the others in their order.
PendingUniqueInOrder ==
  /\ [](\A i, j \in 1..Len(pendingPRs) :
          pendingPRs[i].id = pendingPRs[j].id => i = j)
  /\ [][pendingPRs' # pendingPRs =>
          \/ /\ IsAdmit(last') /\ last'.out = "queued"
             /\ pendingPRs' =
                  Append(pendingPRs, [id |-> last'.id, changedLines |-> last'.metric])
          \/ /\ IsResolve(last')
             /\ last'.id \in IdsOf(pendingPRs)
             /\ pendingPRs' = PendingOthers(pendingPRs, last'.id)]_vars

\* C33 witness: two ids were queued, the first queued is resolved, and the
\* second is now the only entry.
FirstOfTwoResolved ==
  /\ IsResolve(last)
  /\ spawned = 2
  /\ Len(pendingPRs) = 1
  /\ pendingPRs[1].id # last.id
  /\ \E t \in tasks : t.pr = pendingPRs[1] /\ t.run = 2

\* C34: every record of the reviews has one of the three verdicts approve,
\* request_changes, comment.
RecordVerdictsValid ==
  \A i \in 1..Len(stateReviews) : stateReviews[i].verdict \in Verdicts

\* C35: the 'end' handler of a request calls handlePullRequest only when
\* the request carried the HMAC of its body, was a pull_request event with
\* one of the three tracked actions and its payload gave an event with an
\* id; the handling of any other request leaves pendingPRs unchanged.
IntakeValidated ==
  [][last.op = "delivery" =>
       LET d == last.delivery
           good == /\ d.sig = "valid"
                   /\ d.event = "pull_request"
                   /\ d.action \in {"opened", "synchronize", "reopened"}
                   /\ d.shape = "complete"
                   /\ d.pr.id # NoId
       IN /\ IsAdmit(last') => good
          /\ ~good => pendingPRs' = pendingPRs]_vars

\* C36: the DIFF section of a prompt holds the diff from its first character
\* on and at most 12,000 characters of it: a diff of up to 12,000 characters
\* whole and without the marker, a longer one up to its 12,000th character
\* and followed by the marker.
DiffTruncation ==
  last.op = "prompt" =>
    LET n == last.metric
        d == last.body
    IN /\ d.text.from = 0
       /\ d.text.to <= 12000
       /\ n <= 12000 => (d.text.to = n /\ ~d.marker)
       /\ n > 12000 => (d.text.to = 12000 /\ d.marker)

\* C36 witness: a prompt was built for a diff of 12,001 characters: it holds
\* the first 12,000 and the marker.
PromptOf12001 ==
  /\ last.op = "prompt" /\ last.metric = 12001
  /\ last.body.text.to = 12000 /\ last.body.marker

\* C37: the guard call of a run made while the bot login is unknown never
\* ends the run, whether or not GitHub holds a review for the id; a run the
\* guard ends was made with the login known and a review on GitHub; and a
\* run whose guard found nothing (no login, lookup error or no review)
\* stands before fetchDiff with only the guard call made, still pending.
GuardFailsOpen ==
  [][\A t \in tasks \ tasks' :
       (t.pc = "guard" /\ ~IsRestart(last')) =>
         /\ botLogin = "" => last'.op = "guard"
         /\ IsResolve(last') => (botLogin # "" /\ t.pr.id \in ghReviews)
         /\ last'.op = "guard" =>
              /\ last'.id = t.pr.id
              /\ last'.out \in {"no_login", "lookup_error", "not_found"}
              /\ last'.out = "no_login" <=> botLogin = ""
              /\ last'.out = "not_found" => t.pr.id \notin ghReviews
              /\ tasks' \ tasks = {[t EXCEPT !.pc = "fetch", !.calls = <<"guard">>]}
              /\ pendingPRs' = pendingPRs
              /\ ghReviews' = ghReviews]_vars

\* C37 witness: GitHub holds a review by the bot for the id, the login is
\* known, the lookup failed, and the run stands before fetchDiff.
GuardPassedDespiteReview ==
  /\ last.op = "guard" /\ last.out = "lookup_error"
  /\ botLogin # ""
  /\ last.id \in ghReviews
  /\ \E t \in tasks : t.pr.id = last.id /\ t.pc = "fetch"

\* C38: a load that finds no complete snapshot on disk (no file, or a file
\* cut short by an interrupted write) does not fail: it leaves the process
\* with an empty ledger, as on a first run, writes the empty snapshot
\* through, and handlePullRequest then turns no event away as already
\* reviewed.
LoadNeverFails ==
  [][(IsLoad /\ file.kind # "ok") =>
       /\ file.kind \in {"absent", "partial"}
       /\ getState = <<>>
       /\ stateReviews' = <<>>
       /\ <<>> \in saves'
       /\ \A event \in Events : AdmitOutcome(event)' # "skipped_reviewed"]_vars

\* C38 witness: the process has loaded from a file cut short by a write
\* that had replaced a snapshot with records, and has done nothing since; a
\* review of an earlier process is on GitHub, the ledger is empty and the
\* empty snapshot waits to be written.
LoadedFromPartial ==
  /\ setOutputsSet
  /\ file.kind = "partial" /\ file.overwrote
  /\ ghReviews # {}
  /\ stateReviews = <<>> /\ saves = {<<>>}
  /\ pendingPRs = <<>> /\ tasks = {}

====
